---- MODULE Spec2Model ----
(***************************************************************************)
(* The tokenizer of rcc (src/src/lexer.rs): the Lexer state machine       *)
(* (process / pop / push / finalize), the classification of a buffered    *)
(* lexeme (Token::parse and the valid_* helpers) and the driver            *)
(* lex_contents.                                                           *)
(*                                                                         *)
(* Text is a sequence of characters; a character is a one-character        *)
(* string, except the two-byte scalar U+00E9, written "U+00E9".            *)
(*                                                                         *)
(* A u64 is kept as an integer; the result of a wrapping subtraction that  *)
(* went below zero is kept as the negative number r that stands for the    *)
(* u64 value 2^64 + r.                                                     *)
(***************************************************************************)
EXTENDS Integers, Sequences, FiniteSets, TLC

\* Longest input whose characters are all chosen freely.
MaxLen == 4

(***************************************************************************)
(* Characters                                                              *)
(***************************************************************************)
Letters ==
    {"a", "b", "c", "d", "e", "f", "g", "h", "i", "j", "k", "l", "m",
     "n", "o", "p", "q", "r", "s", "t", "u", "v", "w", "x", "y", "z",
     "A", "B", "C", "D", "E", "F", "G", "H", "I", "J", "K", "L", "M",
     "N", "O", "P", "Q", "R", "S", "T", "U", "V", "W", "X", "Y", "Z"}

DigitValue ==
    "0" :> 0 @@ "1" :> 1 @@ "2" :> 2 @@ "3" :> 3 @@ "4" :> 4 @@
    "5" :> 5 @@ "6" :> 6 @@ "7" :> 7 @@ "8" :> 8 @@ "9" :> 9

Digits == DOMAIN DigitValue

\* The characters a freely chosen input is made of: two letters (they spell
\* the keyword "do"), a digit, space, newline, a symbol that process treats
\* at once (;), a symbol it does not (=), the quote, the apostrophe, the two
\* signs, a character of no token (@) and a two-byte character.
Chars ==
    {"d", "o", "5", " ", "\n", ";", "=", "\"", "'", "+", "-", "@", "U+00E9"}

\* str::len counts UTF-8 bytes.
Utf8Len(c) == IF c = "U+00E9" THEN 2 ELSE 1

RECURSIVE ByteLen(_)
ByteLen(s) == IF s = <<>> THEN 0 ELSE Utf8Len(Head(s)) + ByteLen(Tail(s))

(***************************************************************************)
(* The token model                                                         *)
(***************************************************************************)
KeywordTable ==
    <<"a", "u", "t", "o">> :> "Auto" @@
    <<"b", "r", "e", "a", "k">> :> "Break" @@
    <<"c", "a", "s", "e">> :> "Case" @@
    <<"c", "h", "a", "r">> :> "Char" @@
    <<"c", "o", "n", "s", "t">> :> "Const" @@
    <<"c", "o", "n", "t", "i", "n", "u", "e">> :> "Continue" @@
    <<"d", "e", "f", "a", "u", "l", "t">> :> "Default" @@
    <<"d", "o">> :> "Do" @@
    <<"d", "o", "u", "b", "l", "e">> :> "Double" @@
    <<"e", "l", "s", "e">> :> "Else" @@
    <<"e", "n", "u", "m">> :> "Enum" @@
    <<"e", "x", "t", "e", "r", "n">> :> "Extern" @@
    <<"f", "l", "o", "a", "t">> :> "Float" @@
    <<"f", "o", "r">> :> "For" @@
    <<"g", "o", "t", "o">> :> "Goto" @@
    <<"i", "f">> :> "If" @@
    <<"i", "n", "l", "i", "n", "e">> :> "Inline" @@
    <<"i", "n", "t">> :> "Int" @@
    <<"l", "o", "n", "g">> :> "Long" @@
    <<"n", "u", "l", "l", "p", "t", "r">> :> "Nullptr" @@
    <<"r", "e", "g", "i", "s", "t", "e", "r">> :> "Register" @@
    <<"r", "e", "s", "t", "r", "i", "c", "t">> :> "Restrict" @@
    <<"r", "e", "t", "u", "r", "n">> :> "Return" @@
    <<"s", "h", "o", "r", "t">> :> "Short" @@
    <<"s", "i", "g", "n", "e", "d">> :> "Signed" @@
    <<"s", "i", "z", "e", "o", "f">> :> "Sizeof" @@
    <<"s", "t", "a", "t", "i", "c">> :> "Static" @@
    <<"s", "t", "r", "u", "c", "t">> :> "Struct" @@
    <<"s", "w", "i", "t", "c", "h">> :> "Switch" @@
    <<"t", "y", "p", "e", "d", "e", "f">> :> "Typedef" @@
    <<"u", "n", "i", "o", "n">> :> "Union" @@
    <<"u", "n", "s", "i", "g", "n", "e", "d">> :> "Unsigned" @@
    <<"v", "o", "i", "d">> :> "Void" @@
    <<"v", "o", "l", "a", "t", "i", "l", "e">> :> "Volatile" @@
    <<"w", "h", "i", "l", "e">> :> "While"

SymbolTable ==
    "&" :> "Ampersand" @@
    "*" :> "Asterisk" @@
    "{" :> "BracketOpen" @@
    "}" :> "BracketClose" @@
    "," :> "Comma" @@
    ":" :> "Colon" @@
    "=" :> "Equals" @@
    "#" :> "Hash" @@
    "(" :> "ParenOpen" @@
    ")" :> "ParenClose" @@
    ";" :> "Semicolon" @@
    "[" :> "SquareBracketOpen" @@
    "]" :> "SquareBracketClose"

KeywordToken(k) == [kind |-> "Keyword", keyword |-> k]
SymbolToken(s) == [kind |-> "Symbol", symbol |-> s]
IdentifierToken(name) == [kind |-> "Identifier", name |-> name]
IntegerToken(v) == [kind |-> "Literal", literal |-> "Integer", value |-> v]
StringToken(s) == [kind |-> "Literal", literal |-> "String", body |-> s]
CharToken(c) == [kind |-> "Literal", literal |-> "Char", char |-> c]

Some(t) == [tag |-> "Some", token |-> t]
None == [tag |-> "None"]
\* A failed unwrap(): the thread panics and lex_contents never returns.
Panicked == [tag |-> "Panic"]

(***************************************************************************)
(* Regex::new(pattern).is_match(string): a search, the pattern may match   *)
(* anywhere in the string.                                                 *)
(***************************************************************************)
\* "[0-9]+"
IntegerPatternMatches(s) == \E i \in 1..Len(s) : s[i] \in Digits

\* pattern q.*q for a delimiter q; "." matches any character but "\n".
DelimitedPatternMatches(s, q) ==
    \E i \in 1..Len(s) : \E j \in (i + 1)..Len(s) :
        /\ s[i] = q
        /\ s[j] = q
        /\ \A k \in (i + 1)..(j - 1) : s[k] # "\n"

\* "\".*\""
StringPatternMatches(s) == DelimitedPatternMatches(s, "\"")

\* "'.*'"
CharPatternMatches(s) == DelimitedPatternMatches(s, "'")

\* "[a-zA-Z][a-zA-Z0-9]*"
IdentifierPatternMatches(s) == \E i \in 1..Len(s) : s[i] \in Letters

(***************************************************************************)
(* str::parse::<i64>() and str::parse::<char>()                            *)
(***************************************************************************)
\* i64::MAX and the magnitude of i64::MIN, digit by digit.
I64MaxDigits ==
    <<"9", "2", "2", "3", "3", "7", "2", "0", "3", "6", "8", "5", "4", "7",
      "7", "5", "8", "0", "7">>
I64MinDigits ==
    <<"9", "2", "2", "3", "3", "7", "2", "0", "3", "6", "8", "5", "4", "7",
      "7", "5", "8", "0", "8">>

RECURSIVE StripZeros(_)
StripZeros(ds) ==
    IF ds # <<>> /\ Head(ds) = "0" THEN StripZeros(Tail(ds)) ELSE ds

\* ds > limit, for digit strings without leading zeros.
RECURSIVE DigitsGreater(_, _)
DigitsGreater(ds, limit) ==
    IF Len(ds) # Len(limit) THEN Len(ds) > Len(limit)
    ELSE IF ds = <<>> THEN FALSE
    ELSE IF Head(ds) # Head(limit)
         THEN DigitValue[Head(ds)] > DigitValue[Head(limit)]
    ELSE DigitsGreater(Tail(ds), Tail(limit))

RECURSIVE DecimalValue(_)
DecimalValue(ds) ==
    IF ds = <<>> THEN 0
    ELSE 10 * DecimalValue(SubSeq(ds, 1, Len(ds) - 1)) + DigitValue[ds[Len(ds)]]

\* An optional sign, then one or more decimal digits, within the i64 range.
ParseI64(s) ==
    LET signed == s # <<>> /\ Head(s) \in {"+", "-"}
        negative == s # <<>> /\ Head(s) = "-"
        ds == IF signed THEN Tail(s) ELSE s
        limit == IF negative THEN I64MinDigits ELSE I64MaxDigits
    IN  IF \/ ds = <<>>
           \/ \E i \in 1..Len(ds) : ds[i] \notin Digits
           \/ DigitsGreater(StripZeros(ds), limit)
        THEN [ok |-> FALSE]
        ELSE [ok |-> TRUE,
              value |-> IF negative THEN 0 - DecimalValue(ds)
                        ELSE DecimalValue(ds)]

\* Exactly one character.
ParseChar(s) ==
    IF Len(s) = 1 THEN [ok |-> TRUE, value |-> s[1]] ELSE [ok |-> FALSE]

(***************************************************************************)
(* The valid_* helpers: Some(token), None, or a panic in unwrap()          *)
(***************************************************************************)
valid_integer_literal(s) ==
    IF IntegerPatternMatches(s)
    THEN IF ParseI64(s).ok THEN Some(IntegerToken(ParseI64(s).value))
         ELSE Panicked
    ELSE None

valid_string_literal(s) ==
    IF StringPatternMatches(s) THEN Some(StringToken(s)) ELSE None

valid_char_literal(s) ==
    IF CharPatternMatches(s)
    THEN IF ParseChar(s).ok THEN Some(CharToken(ParseChar(s).value))
         ELSE Panicked
    ELSE None

valid_identifier(s) ==
    IF IdentifierPatternMatches(s) THEN Some(IdentifierToken(s)) ELSE None

\* Option::or takes its argument by value: the three helpers all run, in
\* this order, whatever the earlier ones returned.
valid_literal(s) ==
    LET i == valid_integer_literal(s)
        t == valid_string_literal(s)
        c == valid_char_literal(s)
    IN  IF i.tag = "Panic" \/ c.tag = "Panic" THEN Panicked
        ELSE IF i.tag = "Some" THEN i
        ELSE IF t.tag = "Some" THEN t
        ELSE c

(***************************************************************************)
(* Token::parse                                                            *)
(***************************************************************************)
Ok(t) == [tag |-> "Ok", token |-> t]
Unit == [tag |-> "Ok"]
InvalidToken(token, col, ln) ==
    [tag |-> "Err", token |-> token, column |-> col, line |-> ln]

\* lexer.column - lexer.buffer.len() as u64: below zero the subtraction
\* panics in a build with overflow checks and wraps in one without.
ErrorColumn(lx) == lx.column - ByteLen(lx.buffer)

\* Token::parse without its keyword arms.
TokenParseWithoutKeywords(lx, overflowChecks) ==
    LET s == lx.buffer
    IN  IF Len(s) = 1 /\ s[1] \in DOMAIN SymbolTable
        THEN Ok(SymbolToken(SymbolTable[s[1]]))
        ELSE LET lit == valid_literal(s)
                 ident == valid_identifier(s)
             IN  IF lit.tag = "Panic" THEN Panicked
                 ELSE IF lit.tag = "Some" THEN Ok(lit.token)
                 ELSE IF ident.tag = "Some" THEN Ok(ident.token)
                 ELSE IF ErrorColumn(lx) < 0 /\ overflowChecks THEN Panicked
                 ELSE InvalidToken(s, ErrorColumn(lx), lx.line)

TokenParse(lx, overflowChecks) ==
    LET s == lx.buffer
    IN  IF s \in DOMAIN KeywordTable THEN Ok(KeywordToken(KeywordTable[s]))
        ELSE IF Len(s) = 1 /\ s[1] \in DOMAIN SymbolTable
             THEN Ok(SymbolToken(SymbolTable[s[1]]))
        ELSE LET lit == valid_literal(s)
                 ident == valid_identifier(s)
             IN  IF lit.tag = "Panic" THEN Panicked
                 ELSE IF lit.tag = "Some" THEN Ok(lit.token)
                 ELSE IF ident.tag = "Some" THEN Ok(ident.token)
                 ELSE IF ErrorColumn(lx) < 0 /\ overflowChecks THEN Panicked
                 ELSE InvalidToken(s, ErrorColumn(lx), lx.line)

(***************************************************************************)
(* Lexer                                                                   *)
(***************************************************************************)
new ==
    [buffer |-> <<>>, column |-> 0, line |-> 1, tokens |-> <<>>,
     context |-> "Normal"]

push(lx, c) ==
    [lx EXCEPT !.buffer = Append(@, c),
               !.column = IF c = "\n" THEN 0 ELSE @ + 1,
               !.line = IF c = "\n" THEN @ + 1 ELSE @]

\* pop storing the new token over the tokens instead of after them.
popOverwritingTokens(lx, overflowChecks) ==
    IF ByteLen(lx.buffer) > 0
    THEN LET r == TokenParse(lx, overflowChecks)
         IN  IF r.tag = "Ok"
             THEN [lexer |-> [lx EXCEPT !.tokens = <<r.token>>,
                                        !.buffer = <<>>],
                   res |-> Unit]
             ELSE [lexer |-> lx, res |-> r]
    ELSE [lexer |-> lx, res |-> Unit]

\* pop without its test for an empty buffer.
popWithoutEmptyTest(lx, overflowChecks) ==
    LET r == TokenParse(lx, overflowChecks)
    IN  IF r.tag = "Ok"
        THEN [lexer |-> [lx EXCEPT !.tokens = Append(@, r.token),
                                   !.buffer = <<>>],
              res |-> Unit]
        ELSE [lexer |-> lx, res |-> r]

pop(lx, overflowChecks) ==
    IF ByteLen(lx.buffer) > 0
    THEN LET r == TokenParse(lx, overflowChecks)
         IN  IF r.tag = "Ok"
             THEN [lexer |-> [lx EXCEPT !.tokens = Append(@, r.token),
                                        !.buffer = <<>>],
                   res |-> Unit]
             ELSE [lexer |-> lx, res |-> r]
    ELSE [lexer |-> lx, res |-> Unit]

\* The characters process flushes the buffer for and emits at once.
ImmediateSymbols == {"(", ")", "{", "}", ";", "*"}

process(lx, c, overflowChecks) ==
    IF lx.context = "Normal"
    THEN IF c = " " \/ c = "\n" THEN pop(lx, overflowChecks)
         ELSE IF c \in ImmediateSymbols
              THEN LET first == pop(lx, overflowChecks)
                   IN  IF first.res.tag # "Ok" THEN first
                       ELSE pop(push(first.lexer, c), overflowChecks)
         ELSE IF c = "\""
              THEN [lexer |-> [lx EXCEPT !.context = "InString"], res |-> Unit]
         ELSE [lexer |-> push(lx, c), res |-> Unit]
    ELSE IF c = "\""
         THEN LET emitted ==
                      IF ByteLen(lx.buffer) > 0
                      THEN [lx EXCEPT !.tokens = Append(@, StringToken(lx.buffer)),
                                      !.buffer = <<>>]
                      ELSE lx
              IN  [lexer |-> [emitted EXCEPT !.context = "Normal"], res |-> Unit]
         ELSE [lexer |-> push(lx, c), res |-> Unit]

finalize(lx, overflowChecks) ==
    IF lx.buffer # <<>> THEN pop(lx, overflowChecks)
    ELSE [lexer |-> lx, res |-> Unit]

(***************************************************************************)
(* lex_contents                                                            *)
(***************************************************************************)
\* The inputs of the tests of src/src/lexer.rs.
TestAssignInteger ==
    <<"i", "n", "t", " ", "f", "o", "o", " ", "=", " ", "5", ";">>

TestAssignString ==
    <<"c", "o", "n", "s", "t", " ", "c", "h", "a", "r", " ", "*", "s", "t",
    "r", "i", "n", "g", " ", "=", " ", "\"", "H", "e", "l", "l", "o", " ",
    "w", "o", "r", "l", "d", " ", "a", "n", "d", " ", "a", "l", "l", " ",
    "w", "h", "o", " ", "i", "n", "h", "a", "b", "i", "t", " ", "i", "t",
    "!", "\"", ";">>

TestFunctionDecl ==
    <<"\n", " ", " ", " ", " ", " ", " ", " ", " ", " ", " ", " ", " ",
    "i", "n", "t", " ", "m", "a", "i", "n", "(", ")", " ", "{", "\n", " ",
    " ", " ", " ", " ", " ", " ", " ", " ", " ", " ", " ", " ", " ", " ",
    " ", "r", "e", "t", "u", "r", "n", " ", "0", ";", "\n", " ", " ", " ",
    " ", " ", " ", " ", " ", " ", " ", " ", " ", "}", "\n", " ", " ", " ",
    " ", " ", " ", " ", " ", " ", " ", " ", " ">>

\* Inputs given whole: each reserved word alone, the tests' inputs, and the
\* digits of i64::MAX + 1.
KnownInputs ==
    DOMAIN KeywordTable
        \cup {TestAssignInteger, TestAssignString, TestFunctionDecl, I64MinDigits}

VARIABLES
    contents,   \* the input: a known text, or one chosen character by character
    consumed,   \* the characters contents.chars() has yielded so far
    buffer, column, line, tokens, context,   \* the fields of the Lexer
    pc,         \* the statement of lex_contents that ran last: "loop" or "finalize"
    result      \* what lex_contents returned, if it has

vars == <<contents, consumed, buffer, column, line, tokens, context, pc, result>>

lexer ==
    [buffer |-> buffer, column |-> column, line |-> line, tokens |-> tokens,
     context |-> context]

SetLexer(lx) ==
    /\ buffer' = lx.buffer
    /\ column' = lx.column
    /\ line' = lx.line
    /\ tokens' = lx.tokens
    /\ context' = lx.context

Running == [tag |-> "Running"]

Init ==
    /\ contents \in {[known |-> FALSE, text |-> <<>>]}
                    \cup {[known |-> TRUE, text |-> t] : t \in KnownInputs}
    /\ consumed = <<>>
    /\ buffer = new.buffer
    /\ column = new.column
    /\ line = new.line
    /\ tokens = new.tokens
    /\ context = new.context
    /\ pc = "loop"
    /\ result = Running

\* What the iterator can yield next.
NextChars ==
    IF contents.known
    THEN IF Len(consumed) < Len(contents.text)
         THEN {contents.text[Len(consumed) + 1]} ELSE {}
    ELSE IF Len(consumed) < MaxLen THEN Chars ELSE {}

\* The loop without the ? after process: the error is kept but the loop
\* goes on.
LoopStepIgnoringFailure(c, overflowChecks) ==
    /\ pc = "loop"
    /\ c \in NextChars
    /\ LET r == process(lexer, c, overflowChecks)
       IN  /\ SetLexer(r.lexer)
           /\ result' = IF r.res.tag = "Ok" THEN result ELSE r.res
    /\ consumed' = Append(consumed, c)
    /\ UNCHANGED <<contents, pc>>

\* One turn of the loop: lexer.process(c)?
LoopStep(c, overflowChecks) ==
    /\ result.tag = "Running"
    /\ c \in NextChars
    /\ LET r == process(lexer, c, overflowChecks)
       IN  /\ SetLexer(r.lexer)
           /\ result' = IF r.res.tag = "Ok" THEN Running ELSE r.res
    /\ consumed' = Append(consumed, c)
    /\ UNCHANGED <<contents, pc>>

\* The iterator is exhausted: lexer.finalize()?; Ok(lexer.tokens)
FinalizeStep(overflowChecks) ==
    /\ result.tag = "Running"
    /\ contents.known => Len(consumed) = Len(contents.text)
    /\ LET r == finalize(lexer, overflowChecks)
       IN  /\ SetLexer(r.lexer)
           /\ result' = IF r.res.tag = "Ok"
                        THEN [tag |-> "Ok", tokens |-> r.lexer.tokens]
                        ELSE r.res
    /\ pc' = "finalize"
    /\ UNCHANGED <<contents, consumed>>

Next ==
    \/ \E c \in NextChars, overflowChecks \in BOOLEAN : LoopStep(c, overflowChecks)
    \/ \E overflowChecks \in BOOLEAN : FinalizeStep(overflowChecks)

Spec == Init /\ [][Next]_vars

(***************************************************************************)
(* Vocabulary of the properties                                            *)
(***************************************************************************)
Last(s) == s[Len(s)]

Whitespace == {" ", "\n"}

\* The step taken is a turn of the loop, on the character Last(consumed').
IsLoopStep == result.tag = "Running" /\ consumed' # consumed
\* The step taken is the call of finalize.
IsFinalizeStep == result.tag = "Running" /\ pc = "loop" /\ pc' = "finalize"

\* The step flushes the buffer in Normal mode: process on a space, a newline
\* or an immediate symbol, or finalize.
FlushesInNormal ==
    /\ context = "Normal"
    /\ buffer # <<>>
    /\ \/ IsFinalizeStep
       \/ IsLoopStep /\ Last(consumed') \in Whitespace \cup ImmediateSymbols

Failed == result.tag \in {"Err", "Panic"}

AllDigits(s) == s # <<>> /\ \A i \in 1..Len(s) : s[i] \in Digits

\* A letter followed by zero or more letters or digits.
IdentifierShaped(s) ==
    /\ s # <<>>
    /\ s[1] \in Letters
    /\ \A i \in 2..Len(s) : s[i] \in Letters \cup Digits

IsSymbolLexeme(s) == Len(s) = 1 /\ s[1] \in DOMAIN SymbolTable

\* A lexeme of the data model: a keyword, a symbol, an integer literal or an
\* identifier.
RecognizedLexeme(s) ==
    \/ s \in DOMAIN KeywordTable
    \/ IsSymbolLexeme(s)
    \/ AllDigits(s)
    \/ IdentifierShaped(s)

\* The token the data model gives a recognized lexeme.
ExpectedToken(s) ==
    IF s \in DOMAIN KeywordTable THEN KeywordToken(KeywordTable[s])
    ELSE IF IsSymbolLexeme(s) THEN SymbolToken(SymbolTable[s[1]])
    ELSE IF AllDigits(s) THEN IntegerToken(DecimalValue(s))
    ELSE IdentifierToken(s)

\* The lexemes of a text without quotes: the maximal runs between spaces,
\* newlines and immediate symbols, and each immediate symbol.
RECURSIVE SplitLexemes(_, _)
SplitLexemes(text, run) ==
    LET flushed == IF run = <<>> THEN <<>> ELSE <<run>>
    IN  IF text = <<>> THEN flushed
        ELSE IF Head(text) \in Whitespace
             THEN flushed \o SplitLexemes(Tail(text), <<>>)
        ELSE IF Head(text) \in ImmediateSymbols
             THEN flushed \o <<<<Head(text)>>>> \o SplitLexemes(Tail(text), <<>>)
        ELSE SplitLexemes(Tail(text), Append(run, Head(text)))

Lexemes(text) == SplitLexemes(text, <<>>)

MadeOfRecognizedLexemes(text) ==
    /\ \A i \in 1..Len(text) : text[i] # "\""
    /\ \A i \in 1..Len(Lexemes(text)) : RecognizedLexeme(Lexemes(text)[i])

OneTokenPerLexeme(text) ==
    /\ result.tag = "Ok"
    /\ Len(result.tokens) = Len(Lexemes(text))
    /\ \A i \in 1..Len(Lexemes(text)) :
           result.tokens[i] = ExpectedToken(Lexemes(text)[i])

(***************************************************************************)
(* C1                                                                      *)
(***************************************************************************)
\* C1: every scan that has ended on an input made of recognized lexemes
\* (keywords, symbols, integer literals, identifiers) separated by spaces,
\* newlines and immediate symbols returned Ok with one token per lexeme, in
\* the order of the lexemes.
C1_OneTokenPerLexemeInOrder ==
    (result.tag # "Running" /\ MadeOfRecognizedLexemes(consumed))
        => OneTokenPerLexeme(consumed)

\* The same, for inputs none of whose identifiers holds a digit and whose
\* integer literals are within the i64 range: what is left of C1 once the
\* lexemes that Token::parse panics on are set aside.
NoDigitInIdentifiers(text) ==
    \A i \in 1..Len(Lexemes(text)) :
        LET l == Lexemes(text)[i]
        IN  \/ AllDigits(l) /\ ~DigitsGreater(StripZeros(l), I64MaxDigits)
            \/ \A k \in 1..Len(l) : l[k] \notin Digits

OneTokenPerLexemeWithoutDigitIdentifiers ==
    (/\ result.tag # "Running"
     /\ MadeOfRecognizedLexemes(consumed)
     /\ NoDigitInIdentifiers(consumed))
        => OneTokenPerLexeme(consumed)

\* The tests of src/src/lexer.rs pass.
TestsPass ==
    /\ (pc = "finalize" /\ consumed = TestAssignInteger)
           => result = [tag |-> "Ok", tokens |->
                  <<KeywordToken("Int"), IdentifierToken(<<"f", "o", "o">>),
                    SymbolToken("Equals"), IntegerToken(5),
                    SymbolToken("Semicolon")>>]
    /\ (pc = "finalize" /\ consumed = TestAssignString)
           => /\ result.tag = "Ok"
              /\ Len(result.tokens) = 7
              /\ result.tokens[6] =
                     StringToken(SubSeq(TestAssignString, 23, 57))
    /\ (pc = "finalize" /\ consumed = TestFunctionDecl)
           => result = [tag |-> "Ok", tokens |->
                  <<KeywordToken("Int"), IdentifierToken(<<"m", "a", "i", "n">>),
                    SymbolToken("ParenOpen"), SymbolToken("ParenClose"),
                    SymbolToken("BracketOpen"), KeywordToken("Return"),
                    IntegerToken(0), SymbolToken("Semicolon"),
                    SymbolToken("BracketClose")>>]

(***************************************************************************)
(* C2                                                                      *)
(***************************************************************************)
\* The position in text of the last quote before position i (0 if none).
RECURSIVE LastQuoteBefore(_, _)
LastQuoteBefore(text, i) ==
    IF i <= 1 THEN 0
    ELSE IF text[i - 1] = "\"" THEN i - 1
    ELSE LastQuoteBefore(text, i - 1)

\* The text between the quote that ends text and the quote before it.
TextBetweenLastQuotes(text) ==
    SubSeq(text, LastQuoteBefore(text, Len(text)) + 1, Len(text) - 1)

\* In string-body mode a character other than the quote is appended to the
\* buffer, emits no token and keeps the mode.
StringBodyStep ==
    (IsLoopStep /\ context = "InString" /\ Last(consumed') # "\"")
        => /\ buffer' = Append(buffer, Last(consumed'))
           /\ tokens' = tokens
           /\ context' = "InString"
           /\ result'.tag = "Running"

\* In string-body mode the quote returns to Normal mode.
StringCloseStep ==
    (IsLoopStep /\ context = "InString" /\ Last(consumed') = "\"")
        => context' = "Normal" /\ result'.tag = "Running"

\* The string literal the closing quote emits holds the text between the two
\* quotes.
StringBodyIsTextBetweenQuotes ==
    (/\ IsLoopStep
     /\ context = "InString"
     /\ Last(consumed') = "\""
     /\ tokens' # tokens)
        => tokens' = Append(tokens, StringToken(TextBetweenLastQuotes(consumed')))

\* C2: in string-body mode every character but the closing quote is appended
\* to the buffer, emits no token and keeps the mode; the quote returns to
\* Normal mode; the emitted string literal's body is exactly the text
\* between the two quotes.
C2_StringBodyVerbatim ==
    [][StringBodyStep /\ StringCloseStep /\ StringBodyIsTextBetweenQuotes]_vars

\* The part of C2 about single steps, without the statement on the body.
StringModeSteps == [][StringBodyStep /\ StringCloseStep]_vars

(***************************************************************************)
(* C3                                                                      *)
(***************************************************************************)
\* C3: a scan of exactly one reserved word returns exactly one token, the
\* Keyword of the matching variant; and no token ever emitted is an
\* Identifier whose name is a reserved word.
C3_KeywordAlone ==
    /\ (pc = "finalize" /\ consumed \in DOMAIN KeywordTable)
           => result = [tag |-> "Ok",
                        tokens |-> <<KeywordToken(KeywordTable[consumed])>>]
    /\ \A i \in 1..Len(tokens) :
           tokens[i].kind = "Identifier" => tokens[i].name \notin DOMAIN KeywordTable

\* The scan of "while" has returned its one token.
C3_Witness ==
    /\ consumed = <<"w", "h", "i", "l", "e">>
    /\ result = [tag |-> "Ok", tokens |-> <<KeywordToken("While")>>]

(***************************************************************************)
(* C4                                                                      *)
(***************************************************************************)
\* C4: a flush in Normal mode of a lexeme that is a letter followed by
\* letters or digits, and no keyword, emits Identifier(lexeme).
C4_IdentifierEmitted ==
    [][(/\ FlushesInNormal
        /\ IdentifierShaped(buffer)
        /\ buffer \notin DOMAIN KeywordTable)
           => /\ ~Failed'
              /\ Len(tokens') > Len(tokens)
              /\ tokens'[Len(tokens) + 1] = IdentifierToken(buffer)]_vars

(***************************************************************************)
(* C5                                                                      *)
(***************************************************************************)
\* The step classifies the buffer: a flush in Normal mode, or finalize in
\* either mode.
Classifies == buffer # <<>> /\ (FlushesInNormal \/ IsFinalizeStep)

\* The token the step's classification emitted, if it emitted one.
EmitsInteger ==
    /\ Len(tokens') > Len(tokens)
    /\ tokens'[Len(tokens) + 1].kind = "Literal"
    /\ tokens'[Len(tokens) + 1].literal = "Integer"

\* C5: a classified lexeme is emitted as Literal(Integer(v)) if and only if
\* it is one or more decimal digits and nothing else, and v is its decimal
\* value; a lexeme with a leading sign is no integer literal.
C5_IntegerIffDigits ==
    [][Classifies
           => /\ EmitsInteger <=> AllDigits(buffer)
              /\ EmitsInteger
                     => tokens'[Len(tokens) + 1] = IntegerToken(DecimalValue(buffer))]_vars

(***************************************************************************)
(* C6                                                                      *)
(***************************************************************************)
\* C6: a flush in Normal mode of a lexeme that is no keyword, no symbol, not
\* all digits and not a letter followed by letters or digits fails with
\* InvalidToken carrying the lexeme. (Stated for the lexemes without a pair
\* of apostrophes, which are C10's, and for the flushes whose error column
\* does not go below zero, which are C19's.)
C6_UnrecognizedRejected ==
    [][(/\ FlushesInNormal
        /\ ~RecognizedLexeme(buffer)
        /\ ~CharPatternMatches(buffer)
        /\ ErrorColumn(lexer) >= 0)
           => /\ result'.tag = "Err"
              /\ result'.token = buffer
              /\ tokens' = tokens]_vars

(***************************************************************************)
(* C7                                                                      *)
(***************************************************************************)
\* The 1-based line and the 0-based column of position i of text.
RECURSIVE NewlinesBefore(_, _)
NewlinesBefore(text, i) ==
    IF i <= 1 THEN 0
    ELSE (IF text[i - 1] = "\n" THEN 1 ELSE 0) + NewlinesBefore(text, i - 1)

RECURSIVE ColumnOf(_, _)
ColumnOf(text, i) ==
    IF i <= 1 \/ text[i - 1] = "\n" THEN 0 ELSE 1 + ColumnOf(text, i - 1)

LineOf(text, i) == 1 + NewlinesBefore(text, i)

\* Where the offending lexeme ends in the input: before the delimiter that
\* process flushed it for, or at the end of the input for finalize.
ErrorLexemeEnd == IF pc = "loop" THEN Len(consumed) - 1 ELSE Len(consumed)
ErrorLexemeStart == ErrorLexemeEnd - Len(result.token) + 1

\* C7: a classification error reports the 1-based line and the 0-based
\* column of the first character of the offending lexeme, wherever the
\* lexeme sits in the input. (Stated for lexemes that are one piece of the
\* input and whose reported column did not wrap.)
C7_ErrorPosition ==
    (/\ result.tag = "Err"
     /\ result.column >= 0
     /\ ErrorLexemeStart >= 1
     /\ result.token = SubSeq(consumed, ErrorLexemeStart, ErrorLexemeEnd))
        => /\ result.line = LineOf(consumed, ErrorLexemeStart)
           /\ result.column = ColumnOf(consumed, ErrorLexemeStart)

\* The same for a lexeme at the very start of the input.
ErrorPositionAtStart ==
    (/\ result.tag = "Err"
     /\ result.column >= 0
     /\ ErrorLexemeStart = 1
     /\ result.token = SubSeq(consumed, ErrorLexemeStart, ErrorLexemeEnd))
        => result.line = 1 /\ result.column = 0

(***************************************************************************)
(* C8                                                                      *)
(***************************************************************************)
\* C8: in Normal mode a character of the Symbol set ends the pending lexeme
\* and is a token of its own: the buffer never holds a symbol character
\* together with other characters.
C8_SymbolNeverAccumulated ==
    context = "Normal"
        => \A i \in 1..Len(buffer) :
               buffer[i] \in DOMAIN SymbolTable => Len(buffer) = 1

\* The same for the six symbols process handles itself.
ImmediateSymbolNeverAccumulated ==
    context = "Normal"
        => \A i \in 1..Len(buffer) :
               buffer[i] \in ImmediateSymbols => Len(buffer) = 1

(***************************************************************************)
(* C9                                                                      *)
(***************************************************************************)
\* C9: a quote processed in Normal mode with a non-empty buffer flushes the
\* pending lexeme (its token is emitted, or the scan fails) before the mode
\* switches, so the string body starts from an empty buffer.
C9_FlushBeforeOpeningQuote ==
    [][(/\ IsLoopStep
        /\ context = "Normal"
        /\ buffer # <<>>
        /\ Last(consumed') = "\"")
           => \/ Failed'
              \/ /\ Len(tokens') = Len(tokens) + 1
                 /\ buffer' = <<>>
                 /\ context' = "InString"]_vars

(***************************************************************************)
(* C10                                                                     *)
(***************************************************************************)
\* The input is an apostrophe, a body without apostrophe, quote, space,
\* newline or immediate symbol, and an apostrophe.
ApostropheLiteral(text) ==
    /\ Len(text) >= 2
    /\ text[1] = "'"
    /\ text[Len(text)] = "'"
    /\ \A i \in 2..(Len(text) - 1) :
           text[i] \notin {"'", "\""} \cup Whitespace \cup ImmediateSymbols

\* C10: the scan of ' x ' with exactly one character between the apostrophes
\* returns Literal(Char(x)); with a body that is not exactly one character
\* it fails with a classification error.
C10_CharLiteral ==
    (pc = "finalize" /\ ApostropheLiteral(consumed))
        => IF Len(consumed) = 3
           THEN result = [tag |-> "Ok", tokens |-> <<CharToken(consumed[2])>>]
           ELSE result.tag = "Err"

(***************************************************************************)
(* C11                                                                     *)
(***************************************************************************)
\* The tokens emitted before the step are still there, in place.
EmittedTokensKept ==
    /\ Len(tokens') >= Len(tokens)
    /\ SubSeq(tokens', 1, Len(tokens)) = tokens

\* C11 as stated: every call of process leaves the emitted tokens unchanged
\* and appends zero tokens or exactly one.
C11_AtMostOneTokenPerProcess ==
    [][IsLoopStep => EmittedTokensKept /\ Len(tokens') <= Len(tokens) + 1]_vars

\* C11 as amended: every call of process leaves the emitted tokens unchanged
\* and appends at most two tokens; it appends two only for an immediate
\* symbol processed in Normal mode with a non-empty buffer (the pending
\* lexeme's token, then the symbol's).
C11_AtMostTwoTokensPerProcess ==
    [][IsLoopStep
           => /\ EmittedTokensKept
              /\ Len(tokens') <= Len(tokens) + 2
              /\ Len(tokens') = Len(tokens) + 2
                     => /\ context = "Normal"
                        /\ buffer # <<>>
                        /\ Last(consumed') \in ImmediateSymbols
                        /\ tokens'[Len(tokens')] =
                               SymbolToken(SymbolTable[Last(consumed')])]_vars

\* process(';') with "d" pending has appended two tokens.
C11_Witness ==
    /\ consumed = <<"d", ";">>
    /\ tokens = <<IdentifierToken(<<"d">>), SymbolToken("Semicolon")>>

(***************************************************************************)
(* C12                                                                     *)
(***************************************************************************)
\* C12: after any sequence of process calls, column is the number of
\* characters consumed since the last newline (or the start) and line is 1
\* plus the number of newlines consumed.
C12_PositionCountsEveryCharacter ==
    (pc = "loop" /\ result.tag = "Running")
        => /\ column = ColumnOf(consumed, Len(consumed) + 1)
           /\ line = LineOf(consumed, Len(consumed) + 1)

(***************************************************************************)
(* C13                                                                     *)
(***************************************************************************)
\* C13: once a process or finalize step failed with a classification error,
\* no further character is processed and nothing changes any more; the
\* result is that one error, which carries no token sequence.
C13_ShortCircuitOnError ==
    /\ [][result.tag = "Err" => UNCHANGED vars]_vars
    /\ [](result.tag = "Err" => DOMAIN result = {"tag", "token", "column", "line"})

\* A scan failed after it had emitted tokens and before the input had to end.
C13_Witness ==
    /\ result.tag = "Err"
    /\ tokens # <<>>
    /\ pc = "loop"
    /\ ~contents.known
    /\ Len(consumed) < MaxLen

(***************************************************************************)
(* C14                                                                     *)
(***************************************************************************)
\* The pieces of a text between its spaces; a space between two quotes is
\* part of its piece.
RECURSIVE SplitAtSpaces(_, _, _)
SplitAtSpaces(text, run, quoted) ==
    IF text = <<>> THEN <<run>>
    ELSE IF Head(text) = " " /\ ~quoted
         THEN <<run>> \o SplitAtSpaces(Tail(text), <<>>, FALSE)
    ELSE SplitAtSpaces(Tail(text), Append(run, Head(text)),
                       IF Head(text) = "\"" THEN ~quoted ELSE quoted)

Pieces(text) == SplitAtSpaces(text, <<>>, FALSE)

\* A string literal: a quote, a body without quote, a quote.
StringLiteralLexeme(s) ==
    /\ Len(s) >= 2
    /\ s[1] = "\""
    /\ s[Len(s)] = "\""
    /\ \A i \in 2..(Len(s) - 1) : s[i] # "\""

\* Recognized keywords, symbols, identifiers and literals separated by
\* single spaces. (The identifiers hold no digit, those are C4's, and the
\* integer literals are within the i64 range, the others are C20's.)
RoundTripInput(text) ==
    \A i \in 1..Len(Pieces(text)) :
        LET l == Pieces(text)[i]
        IN  \/ StringLiteralLexeme(l)
            \/ /\ RecognizedLexeme(l)
               /\ \/ AllDigits(l) /\ ~DigitsGreater(StripZeros(l), I64MaxDigits)
                  \/ \A k \in 1..Len(l) : l[k] \notin Digits

RECURSIVE DigitsOf(_)
DigitsOf(n) ==
    LET d == CHOOSE c \in Digits : DigitValue[c] = n % 10
    IN  IF n < 10 THEN <<d>> ELSE Append(DigitsOf(n \div 10), d)

\* The text of a token, a literal's without its delimiters.
Rendering(t) ==
    IF t.kind = "Keyword"
    THEN CHOOSE s \in DOMAIN KeywordTable : KeywordTable[s] = t.keyword
    ELSE IF t.kind = "Symbol"
    THEN <<CHOOSE c \in DOMAIN SymbolTable : SymbolTable[c] = t.symbol>>
    ELSE IF t.kind = "Identifier" THEN t.name
    ELSE IF t.literal = "Integer"
    THEN (IF t.value < 0 THEN <<"-">> \o DigitsOf(0 - t.value)
          ELSE DigitsOf(t.value))
    ELSE IF t.literal = "String" THEN t.body
    ELSE <<t.char>>

RECURSIVE JoinRenderings(_)
JoinRenderings(ts) ==
    IF ts = <<>> THEN <<>>
    ELSE IF Len(ts) = 1 THEN Rendering(ts[1])
    ELSE Rendering(ts[1]) \o <<" ">> \o JoinRenderings(Tail(ts))

RECURSIVE WithoutQuotes(_)
WithoutQuotes(text) ==
    IF text = <<>> THEN <<>>
    ELSE IF Head(text) = "\"" THEN WithoutQuotes(Tail(text))
    ELSE <<Head(text)>> \o WithoutQuotes(Tail(text))

RoundTrips(text) ==
    /\ result.tag = "Ok"
    /\ Len(result.tokens) = Len(Pieces(text))
    /\ JoinRenderings(result.tokens) = WithoutQuotes(text)

\* C14: the scan of recognized keywords, symbols, identifiers and literals
\* (the empty string literal among them) separated by single spaces
\* succeeds, emits one token per lexeme, and the renderings of the tokens
\* joined by single spaces are the input without the literals' quotes.
C14_RoundTrip ==
    (pc = "finalize" /\ RoundTripInput(consumed)) => RoundTrips(consumed)

\* The same for inputs without the empty string literal.
RoundTripWithoutEmptyString ==
    (/\ pc = "finalize"
     /\ RoundTripInput(consumed)
     /\ \A i \in 1..Len(Pieces(consumed)) : Pieces(consumed)[i] # <<"\"", "\"">>)
        => RoundTrips(consumed)

(***************************************************************************)
(* C16                                                                     *)
(***************************************************************************)
\* The text consumed after the last quote.
TextAfterLastQuote(text) ==
    SubSeq(text, LastQuoteBefore(text, Len(text) + 1) + 1, Len(text))

\* C16: text buffered in string-body mode is never classified: a step taken
\* in string-body mode, finalize at the end of an unterminated literal
\* included, emits no token but a string literal.
C16_StringBodyNeverClassified ==
    [][(/\ result.tag = "Running"
        /\ context = "InString"
        /\ buffer = TextAfterLastQuote(consumed))
           => \A i \in (Len(tokens) + 1)..Len(tokens') :
                  tokens'[i].kind = "Literal" /\ tokens'[i].literal = "String"]_vars

\* The same for the calls of process alone.
StringBodyNeverClassifiedByProcess ==
    [][(IsLoopStep /\ context = "InString")
           => \A i \in (Len(tokens) + 1)..Len(tokens') :
                  tokens'[i].kind = "Literal" /\ tokens'[i].literal = "String"]_vars

(***************************************************************************)
(* C17                                                                     *)
(***************************************************************************)
\* C17: a space or a newline processed in Normal mode with an empty buffer
\* never fails and leaves the buffer, the tokens and the mode unchanged.
C17_EmptyFlushIsNoOp ==
    [][(/\ IsLoopStep
        /\ context = "Normal"
        /\ buffer = <<>>
        /\ Last(consumed') \in Whitespace)
           => /\ result'.tag = "Running"
              /\ buffer' = <<>>
              /\ tokens' = tokens
              /\ context' = "Normal"]_vars

\* A token, then a run of three delimiters, and the scan goes on.
C17_Witness ==
    /\ consumed = <<";", " ", "\n", " ">>
    /\ tokens = <<SymbolToken("Semicolon")>>
    /\ buffer = <<>>
    /\ result.tag = "Running"

(***************************************************************************)
(* C18                                                                     *)
(***************************************************************************)
\* finalize has appended exactly one token, the last of the returned ones.
FinalizeAppendsOneToken ==
    /\ result'.tag = "Ok"
    /\ Len(tokens') = Len(tokens) + 1
    /\ SubSeq(tokens', 1, Len(tokens)) = tokens
    /\ result'.tokens = tokens'
    /\ buffer' = <<>>

\* C18: finalize called in Normal mode with a non-empty buffer appends
\* exactly one token, the last one, or fails with a classification error;
\* after every successful scan the buffer is empty. (Stated for the calls
\* whose error column does not go below zero; the others are C19's.)
C18_FinalizeClassifiesTrailingLexeme ==
    /\ [][(/\ IsFinalizeStep
           /\ context = "Normal"
           /\ buffer # <<>>
           /\ ErrorColumn(lexer) >= 0)
              => FinalizeAppendsOneToken \/ result'.tag = "Err"]_vars
    /\ [](result.tag = "Ok" => buffer = <<>>)

\* The same with the panic as a third outcome of finalize.
FinalizeClassifiesOrPanics ==
    /\ [][(IsFinalizeStep /\ context = "Normal" /\ buffer # <<>>)
              => FinalizeAppendsOneToken \/ Failed']_vars
    /\ [](result.tag = "Ok" => buffer = <<>>)

(***************************************************************************)
(* C19                                                                     *)
(***************************************************************************)
\* C19: whenever the buffer is classified (pop called with a non-empty
\* buffer, from process or from finalize), column is at least the buffer's
\* length in bytes, so column - buffer.len() does not go below zero.
C19_ColumnCoversBuffer ==
    [][Classifies => column >= ByteLen(buffer)]_vars

\* The same for buffers of one-byte characters without a newline, classified
\* in Normal mode.
ColumnCoversPlainBuffer ==
    [][(/\ FlushesInNormal
        /\ \A i \in 1..Len(buffer) : Utf8Len(buffer[i]) = 1 /\ buffer[i] # "\n")
           => column >= ByteLen(buffer)]_vars

(***************************************************************************)
(* C20                                                                     *)
(***************************************************************************)
\* C20: lex_contents ends by returning Ok or Err; it never aborts in a
\* failed unwrap. (Stated for the scans whose error column does not go below
\* zero; the abort of the others is the subtraction's, C19's.)
C20_NeverPanics == ErrorColumn(lexer) >= 0 => result.tag # "Panic"

\* The scan of the digits of i64::MAX + 1 ends in the failed unwrap.
IntegerOverflowPanics ==
    (pc = "finalize" /\ consumed = I64MinDigits) => result.tag = "Panic"

====
